---------------------------- MODULE Spec2Model ----------------------------
(***************************************************************************)
(* Model of app.py: the Flask front end of a yt-dlp downloader.            *)
(*                                                                         *)
(* Python strings are sequences of one-character strings, so that          *)
(* slicing, strip(), the regular expressions of parse_progress_line and    *)
(* os.path.basename are computed as the code computes them.  A path of the *)
(* file system is the sequence of its components after resolution.         *)
(* Names are abbreviated: the managed directory web_downloader is "/w",    *)
(* a file of the working directory outside it is "/c".                     *)
(***************************************************************************)
EXTENDS Integers, Sequences, FiniteSets, TLC

(***************************************************************************)
(* Bounds of the model.                                                    *)
(***************************************************************************)
MaxJobs    == 2   \* job identifiers uuid4 can draw, and jobs submitted
MaxLines   == 2   \* output lines the external processes emit in all
MaxQueries == 1   \* GET /status requests
MaxFetches == 2   \* GET /fetch requests
FileJobs   == 1   \* jobs submitted while files are fetched

(***************************************************************************)
(* Program constants.                                                      *)
(***************************************************************************)
TextLimit  == 160 \* line[:160]
GraceDelay == 10  \* time.sleep(10)

QueryIds == 1..MaxQueries
FetchIds == 1..MaxFetches

None == <<"None">>   \* Python's None: no string of characters equals it

(***************************************************************************)
(* String literals of the program.                                         *)
(***************************************************************************)
S_Destination == <<"D", "e", "s", "t", "i", "n", "a", "t", "i", "o", "n", ":">>
S_Starting    == <<"S", "t", "a", "r", "t", "i", "n", "g", ".", ".", ".">>
S_Dashes      == <<"-", "-">>
S_Exited      == <<"y", "t", "-", "d", "l", "p", " ", "e", "x", "i", "t", "e", "d", " ">>
S_InvalidJob  == <<"I", "n", "v", "a", "l", "i", "d", " ", "j", "o", "b">>
S_NotFound    == <<"F", "i", "l", "e", " ", "n", "o", "t", " ", "f", "o", "u", "n", "d">>
S_ENOENT      == <<"[", "E", "r", "r", "n", "o", " ", "2", "]", " ", "N", "o", " ",
                   "s", "u", "c", "h", " ", "f", "i", "l", "e", " ", "o", "r", " ",
                   "d", "i", "r", "e", "c", "t", "o", "r", "y", ":", " ", "'">>
S_at          == <<"a", "t">>
S_iBs         == <<"i", "B", "/", "s">>
S_ETA         == <<"E", "T", "A">>

\* WEB_DOWNLOADER_DIR = os.path.join(os.getcwd(), "web_downloader")
WEB_DOWNLOADER_DIR == <<"/", "w">>

(***************************************************************************)
(* Python string operations.                                               *)
(***************************************************************************)
Digits     == {"0", "1", "2", "3", "4", "5", "6", "7", "8", "9"}
Whitespace == {" ", "\n", "\t", "\r"}

DigitVal(c) ==
    CASE c = "0" -> 0 [] c = "1" -> 1 [] c = "2" -> 2 [] c = "3" -> 3
      [] c = "4" -> 4 [] c = "5" -> 5 [] c = "6" -> 6 [] c = "7" -> 7
      [] c = "8" -> 8 [] c = "9" -> 9

DigitChar(d) ==
    CASE d = 0 -> "0" [] d = 1 -> "1" [] d = 2 -> "2" [] d = 3 -> "3"
      [] d = 4 -> "4" [] d = 5 -> "5" [] d = 6 -> "6" [] d = 7 -> "7"
      [] d = 8 -> "8" [] d = 9 -> "9"

\* s[i-1:j-1] of Python, with 1-based inclusive bounds i..j
Slice(s, i, j) == SubSeq(s, i, j)

\* s[:n]
Prefix(s, n) == IF Len(s) <= n THEN s ELSE SubSeq(s, 1, n)

\* s.startswith(pat, i-1)
MatchAt(pat, s, i) ==
    /\ i >= 1
    /\ i + Len(pat) - 1 <= Len(s)
    /\ \A k \in 1..Len(pat) : s[i + k - 1] = pat[k]

\* pat in s
Contains(pat, s) == \E i \in 1..Len(s) : MatchAt(pat, s, i)

\* s.strip()
Strip(s) ==
    LET keep == {i \in 1..Len(s) : s[i] \notin Whitespace}
    IN  IF keep = {} THEN <<>>
        ELSE LET lo == CHOOSE i \in keep : \A k \in keep : i <= k
                 hi == CHOOSE i \in keep : \A k \in keep : i >= k
             IN  Slice(s, lo, hi)

Min(S) == CHOOSE x \in S : \A y \in S : x <= y
Max(S) == CHOOSE x \in S : \A y \in S : x >= y

\* str(n) of an integer
RECURSIVE DecNat(_)
DecNat(n) == IF n < 10 THEN <<DigitChar(n)>>
             ELSE Append(DecNat(n \div 10), DigitChar(n % 10))

Dec(n) == IF n < 0 THEN <<"-">> \o DecNat(0 - n) ELSE DecNat(n)

\* int(s) of a run of digits
RECURSIVE NatOf(_)
NatOf(s) == IF s = <<>> THEN 0
            ELSE 10 * NatOf(SubSeq(s, 1, Len(s) - 1)) + DigitVal(s[Len(s)])

\* float(s) of "ddd" or "ddd.ddd", kept in hundredths (further digits are
\* below the resolution kept)
ParseFloat(s) ==
    LET dots == {i \in 1..Len(s) : s[i] = "."}
    IN  IF dots = {} THEN NatOf(s) * 100
        ELSE LET d    == Min(dots)
                 frac == SubSeq(s, d + 1, Len(s))
                 f2   == Prefix(frac \o <<"0", "0">>, 2)
             IN  NatOf(SubSeq(s, 1, d - 1)) * 100 + NatOf(f2)


(***************************************************************************)
(* parse_progress_line.  re.search returns the match that starts leftmost; *)
(* at one start the lazy .*? takes the first "at" (then the first "ETA")   *)
(* from which the rest of the pattern matches.                             *)
(***************************************************************************)
\* (\d{1,3}\.\d+|\d{1,3})% starting at i: the positions of the "%"
PctEnds(s, i) ==
    {e \in (i + 1)..Len(s) :
        /\ s[e] = "%"
        /\ \/ /\ e - i <= 3
              /\ \A k \in i..(e - 1) : s[k] \in Digits
           \/ \E d \in (i + 1)..(e - 2) :
                 /\ d - i <= 3
                 /\ s[d] = "."
                 /\ \A k \in i..(d - 1) : s[k] \in Digits
                 /\ \A k \in (d + 1)..(e - 1) : s[k] \in Digits}

\* first position after a run of whitespace that starts at i (0: no \s+ here)
AfterSpaces(s, i) ==
    IF i > Len(s) \/ s[i] \notin Whitespace THEN 0
    ELSE Min({k \in i..(Len(s) + 1) : k > Len(s) \/ s[k] \notin Whitespace})

\* first position after the run of [\d\.] that starts at r
AfterNumber(s, r) ==
    Min({k \in r..(Len(s) + 1) : k > Len(s) \/ s[k] \notin (Digits \cup {"."})})

\* first position after [KMG]? at u
AfterUnit(s, u) == IF u <= Len(s) /\ s[u] \in {"K", "M", "G"} THEN u + 1 ELSE u

\* the group ([\d\.]+[KMG]?iB/s) from r, its number ending before v
RateGroup(s, r, v) == IF MatchAt(S_iBs, s, v) THEN <<r, v + 3>> ELSE <<>>

\* ([\d\.]+[KMG]?iB/s) starting at r, where \s+ ended (0: it did not match)
RateFrom(s, r) ==
    IF r = 0 \/ r > Len(s) \/ s[r] \notin (Digits \cup {"."}) THEN <<>>
    ELSE RateGroup(s, r, AfterUnit(s, AfterNumber(s, r)))

\* at\s+([\d\.]+[KMG]?iB/s) starting at a: <<first, last>> of the group, or <<>>
RateAt(s, a) ==
    IF ~MatchAt(S_at, s, a) THEN <<>> ELSE RateFrom(s, AfterSpaces(s, a + 2))

\* (\d{2}:\d{2}) starting at r, where \s+ ended (0: it did not match)
EtaFrom(s, r) ==
    IF /\ r # 0
       /\ r + 4 <= Len(s)
       /\ s[r] \in Digits /\ s[r + 1] \in Digits
       /\ s[r + 2] = ":"
       /\ s[r + 3] \in Digits /\ s[r + 4] \in Digits
    THEN <<r, r + 4>> ELSE <<>>

\* ETA\s+(\d{2}:\d{2}) starting at t: <<first, last>> of the group, or <<>>
EtaAt(s, t) ==
    IF ~MatchAt(S_ETA, s, t) THEN <<>> ELSE EtaFrom(s, AfterSpaces(s, t + 3))

\* the first ETA group after position v
EtaAfter(s, v) == EtaAt(s, Min({x \in (v + 1)..Len(s) : EtaAt(s, x) # <<>>}))

\* the rate group at a is followed by an ETA
EtaFollows(s, g2) == g2 # <<>> /\ \E t \in (g2[2] + 1)..Len(s) : EtaAt(s, t) # <<>>

\* the starts of "at" after the "%" at e from which the rate matches and, when
\* withEta, an ETA follows the rate
AtStarts(s, e, withEta) ==
    {a \in (e + 1)..Len(s) :
        IF withEta THEN EtaFollows(s, RateAt(s, a)) ELSE RateAt(s, a) # <<>>}

\* the starts of the pattern's matches
Starts(s, withEta) ==
    {i \in 1..Len(s) : \E e \in PctEnds(s, i) : AtStarts(s, e, withEta) # {}}

\* the groups of the match with (pct) = s[i..e-1] and the rate group g2
Groups(s, i, e, g2, withEta) ==
    <<Slice(s, i, e - 1), Slice(s, g2[1], g2[2]),
      IF withEta THEN Slice(s, EtaAfter(s, g2[2])[1], EtaAfter(s, g2[2])[2]) ELSE None>>

\* the match that starts at i with its "%" at e: the lazy .*? takes the first "at"
MatchTo(s, i, e, withEta) ==
    Groups(s, i, e, RateAt(s, Min(AtStarts(s, e, withEta))), withEta)

\* the match that starts at i
MatchFrom(s, i, withEta) ==
    MatchTo(s, i, CHOOSE x \in PctEnds(s, i) : AtStarts(s, x, withEta) # {}, withEta)

\* the leftmost match of the pattern: <<pct, speed, eta>> as substrings, or <<>>
Search(s, withEta) ==
    IF Starts(s, withEta) = {} THEN <<>>
    ELSE MatchFrom(s, Min(Starts(s, withEta)), withEta)

\* lines 46-51, on the two match objects
Parsed(m, m2) ==
    IF m # <<>> THEN <<ParseFloat(m[1]), m[2], m[3]>>
    ELSE IF m2 # <<>> THEN <<ParseFloat(m2[1]), m2[2], None>>
    ELSE None

parse_progress_line(line) == Parsed(Search(line, TRUE), Search(line, FALSE))

(***************************************************************************)
(* The destination announcement: "Destination:" in line, then              *)
(* re.search(r"Destination:\s(.+)", line) and os.path.basename.            *)
(***************************************************************************)
\* m.group(1), or None when the pattern does not match
DestinationGroup(line) ==
    LET n  == Len(S_Destination)
        ps == {p \in 1..Len(line) :
                 /\ MatchAt(S_Destination, line, p)
                 /\ p + n + 1 <= Len(line)
                 /\ line[p + n] \in Whitespace}
    IN  IF ps = {} THEN None
        ELSE Slice(line, Min(ps) + n + 1, Len(line))

\* os.path.basename(p): what follows the last "/"
Basename(p) ==
    LET sl == {i \in 1..Len(p) : p[i] = "/"}
    IN  IF sl = {} THEN p ELSE Slice(p, Max(sl) + 1, Len(p))

(***************************************************************************)
(* The file system.  A resolved path is the sequence of its components;    *)
(* the directories are the working directory and the managed directory,    *)
(* and fs maps the resolved path of every regular file to its mtime.       *)
(***************************************************************************)
NoEntry    == <<None>>
Root       == <<>>
ManagedDir == <<<<"w">>>>
Dirs       == {Root, ManagedDir}
OutsideFile == <<<<"c">>>>

\* p.split("/")
RECURSIVE Split(_)
Split(p) ==
    LET sl == {i \in 1..Len(p) : p[i] = "/"}
    IN  IF sl = {} THEN <<p>>
        ELSE <<SubSeq(p, 1, Min(sl) - 1)>> \o Split(SubSeq(p, Min(sl) + 1, Len(p)))

\* the kernel's walk of the components from the directory `at`
RECURSIVE Walk(_, _)
Walk(at, comps) ==
    IF comps = <<>> THEN at
    ELSE IF at \notin Dirs THEN NoEntry
    ELSE LET c == Head(comps)
         IN  IF c = <<>> \/ c = <<".">> THEN Walk(at, Tail(comps))
             ELSE IF c = <<".", ".">>
                  THEN Walk(IF at = Root THEN Root ELSE SubSeq(at, 1, Len(at) - 1),
                            Tail(comps))
                  ELSE Walk(Append(at, c), Tail(comps))

Resolve(p) == Walk(Root, Split(p))

\* os.path.join(a, b)
Join(a, b) == IF b # <<>> /\ b[1] = "/" THEN b ELSE a \o <<"/">> \o b

\* the file system without the file r, and with r written at time t
Files(files)         == DOMAIN files
Without(files, r)    == [x \in DOMAIN files \ {r} |-> files[x]]
Written(files, r, t) == (r :> t) @@ files
Inside(r)        == Len(r) > Len(ManagedDir) /\ SubSeq(r, 1, Len(ManagedDir)) = ManagedDir

\* posixpath.normpath of a relative path, as components
RECURSIVE Norm(_, _)
Norm(acc, comps) ==
    IF comps = <<>> THEN acc
    ELSE LET c == Head(comps)
         IN  IF c = <<>> \/ c = <<".">> THEN Norm(acc, Tail(comps))
             ELSE IF c = <<".", ".">> /\ acc # <<>> /\ acc[Len(acc)] # <<".", ".">>
                  THEN Norm(SubSeq(acc, 1, Len(acc) - 1), Tail(comps))
                  ELSE Norm(Append(acc, c), Tail(comps))

\* werkzeug's safe_join(WEB_DOWNLOADER_DIR, name): the resolved path, or NoEntry
safe_join(name) ==
    LET n == Norm(<<>>, Split(name))
    IN  IF (name # <<>> /\ name[1] = "/") \/ (n # <<>> /\ n[1] = <<".", ".">>)
        THEN NoEntry
        ELSE ManagedDir \o n

(***************************************************************************)
(* Inputs.                                                                 *)
(***************************************************************************)
JobId(n) == <<"j">> \o Dec(n)
JobIds   == {JobId(n) : n \in 1..MaxJobs}

\* what the external process may print: a line ends with its newline
DestLine(name) == <<"[", "d", "]", " ">> \o S_Destination \o <<" ">>
                    \o Join(WEB_DOWNLOADER_DIR, name) \o <<"\n">>
RawDestA    == DestLine(<<"a">>)
RawDestB    == DestLine(<<"b">>)
RawProgress == <<"5", "%", " ", "a", "t", " ", "1", "K", "i", "B", "/", "s", " ",
                 "E", "T", "A", " ", "0", "0", ":", "1", "2", "\n">>
RawOther    == <<"o", "k", "\n">>
RawLines    == {RawDestA, RawDestB, RawProgress, RawOther}
\* a progress line without ETA, and a line longer than the text kept
RawReduced  == <<"7", ".", "5", "%", " ", "a", "t", " ", "2", "M", "i", "B", "/", "s", "\n">>
RawLong     == [i \in 1..(TextLimit + 1) |-> "x"] \o <<"\n">>
ExitCodes   == {0, 1, -9}

\* the smaller sets of the specifications that interleave jobs with requests
StatusLines == {RawDestA, RawProgress}
StatusCodes == {0, 1}
FileLines   == {RawDestA, RawProgress}
FileCodes   == {0, 1}
\* the lines of the specification of one job's output
ParseLines  == {RawDestA, RawDestB, RawProgress, RawReduced, RawOther, RawLong}

\* the job argument of GET /status: absent, empty, or an identifier
QueryArgs == JobIds \cup {None, <<>>}
\* the filename of GET /fetch
FetchNames == {<<"a">>, <<"b">>, <<".", ".", "/", "c">>}

\* The resolution of a path depends on the path alone (the directories do not
\* change); it is tabulated once for the paths the program builds.
FileNames == {<<"a">>, <<"b">>}
Paths     == {Join(WEB_DOWNLOADER_DIR, n) : n \in FileNames \cup FetchNames}
ResolveOf == [p \in Paths |-> Resolve(p)]

\* os.path.isfile(p), os.path.exists(p), and os.path.getmtime(p) of a file
IsFile(files, p) == ResolveOf[p] \in Files(files)
Exists(files, p) == ResolveOf[p] \in Dirs \/ IsFile(files, p)
Mtime(files, p)  == files[ResolveOf[p]]

(***************************************************************************)
(* build_web_cmd: the argument list of the external process.               *)
(***************************************************************************)
S_ytdlp == <<"y", "t", "-", "d", "l", "p">>

QUALITY_MAP ==
    (<<"1", "4", "4", "p", " ", "(", "L", "o", "w", ")">> :> <<"1", "4", "4">>) @@
    (<<"2", "4", "0", "p">> :> <<"2", "4", "0">>) @@
    (<<"3", "6", "0", "p">> :> <<"3", "6", "0">>) @@
    (<<"4", "8", "0", "p">> :> <<"4", "8", "0">>) @@
    (<<"7", "2", "0", "p">> :> <<"7", "2", "0">>) @@
    (<<"1", "0", "8", "0", "p">> :> <<"1", "0", "8", "0">>) @@
    (<<"1", "4", "4", "0", "p">> :> <<"1", "4", "4", "0">>) @@
    (<<"2", "1", "6", "0", "p", " ", "(", "4", "K", " ", "-", " ", "H", "i", "g", "h", ")">> :> <<"2", "1", "6", "0">>)

S_none       == <<"n", "o", "n", "e">>
S_CookiesTxt == <<"c", "o", "o", "k", "i", "e", "s", ".", "t", "x", "t">>

SPEED_MAP ==
    (<<"S", "l", "o", "w">> :> [concurrent |-> <<"1">>, chunk |-> <<"1", "M">>]) @@
    (<<"M", "i", "d">> :> [concurrent |-> <<"1", "0">>, chunk |-> <<"1", "M">>]) @@
    (<<"H", "i", "g", "h">> :> [concurrent |-> <<"2", "0">>, chunk |-> <<"5", "M">>]) @@
    (<<"T", "u", "r", "b", "o">> :> [concurrent |-> <<"4", "0">>, chunk |-> <<"1", "0", "M">>]) @@
    (<<"S", "u", "p", "e", "r", "f", "a", "s", "t">> :> [concurrent |-> <<"8", "0">>, chunk |-> <<"2", "0", "M">>])

S_480      == <<"4", "8", "0">>
S_480p     == <<"4", "8", "0", "p">>
S_Turbo    == <<"T", "u", "r", "b", "o">>
S_MP4Video == <<"M", "P", "4", " ", "-", " ", "V", "i", "d", "e", "o">>
S_BestUpTo == <<"b", "e", "s", "t", "[", "h", "e", "i", "g", "h", "t", "<", "=">>
S_ExtMp4   == <<"]", "[", "e", "x", "t", "=", "m", "p", "4", "]">>
S_BestAudio == <<"b", "e", "s", "t", "a", "u", "d", "i", "o", "[", "e", "x", "t", "=", "m", "4", "a", "]">>
S_Cookies  == <<"-", "-", "c", "o", "o", "k", "i", "e", "s">>
S_NoPlaylist == <<"-", "-", "n", "o", "-", "p", "l", "a", "y", "l", "i", "s", "t">>
S_ConcurrentFragments == <<"-", "-", "c", "o", "n", "c", "u", "r", "r", "e", "n", "t", "-", "f", "r", "a", "g", "m", "e", "n", "t", "s">>
S_HttpChunkSize == <<"-", "-", "h", "t", "t", "p", "-", "c", "h", "u", "n", "k", "-", "s", "i", "z", "e">>
S_Retries  == <<"-", "-", "r", "e", "t", "r", "i", "e", "s">>
S_FragmentRetries == <<"-", "-", "f", "r", "a", "g", "m", "e", "n", "t", "-", "r", "e", "t", "r", "i", "e", "s">>
S_3        == <<"3">>

\* d.get(key, default)
Get(d, key, default) == IF key \in DOMAIN d THEN d[key] ELSE default

\* os.path.exists("cookies.txt"), a path relative to the working directory
CookieFileExists(files) == Resolve(S_CookiesTxt) \in Dirs \cup Files(files)

\* lines 58-63
FmtStr(h, fmt) ==
    IF fmt = S_MP4Video THEN S_BestUpTo \o h \o S_ExtMp4 ELSE S_BestAudio

\* lines 66-69
CookieArgs(cookies, files) ==
    IF cookies = S_CookiesTxt /\ CookieFileExists(files)
    THEN <<S_Cookies, S_CookiesTxt>> ELSE <<>>

\* lines 71-77
FastArgs(sp) ==
    <<S_ConcurrentFragments, sp.concurrent, S_HttpChunkSize, sp.chunk,
      S_Retries, S_3, S_FragmentRetries, S_3, <<"-", "-", "n", "e", "w", "l", "i", "n", "e">>>>

\* a variant that passes the cookie file whenever the selector names it
build_web_cmd_unchecked(url, quality, fmt, cookies, speed, files) ==
    <<S_ytdlp, <<"-", "f">>, FmtStr(Get(QUALITY_MAP, quality, S_480), fmt)>>
    \o (IF cookies = S_CookiesTxt THEN <<S_Cookies, S_CookiesTxt>> ELSE <<>>)
    \o <<S_NoPlaylist>>
    \o FastArgs(Get(SPEED_MAP, speed, SPEED_MAP[S_Turbo]))
    \o <<<<"-", "o">>, Join(WEB_DOWNLOADER_DIR, <<"%", "(", "t", "i", "t", "l", "e", ")", "s", ".", "%", "(", "e", "x", "t", ")", "s">>), Strip(url)>>

\* lines 53-80; files is the file system the call finds
build_web_cmd(url, quality, fmt, cookies, speed, files) ==
    <<S_ytdlp, <<"-", "f">>, FmtStr(Get(QUALITY_MAP, quality, S_480), fmt)>>
    \o CookieArgs(cookies, files)
    \o <<S_NoPlaylist>>
    \o FastArgs(Get(SPEED_MAP, speed, SPEED_MAP[S_Turbo]))
    \o <<<<"-", "o">>, Join(WEB_DOWNLOADER_DIR, <<"%", "(", "t", "i", "t", "l", "e", ")", "s", ".", "%", "(", "e", "x", "t", ")", "s">>), Strip(url)>>

\* lines 253-257: the values of the form fields that are not sent
DefaultForm ==
    [quality |-> S_480p, fmt |-> S_MP4Video, cookies |-> S_none, speed |-> S_Turbo]

(***************************************************************************)
(* State.                                                                  *)
(***************************************************************************)
VARIABLES
    web_jobs,   \* the registry: a function from the registered ids to job records
    worker,     \* per job id: the worker thread's position and locals
    proc,       \* per job id: the external process, its pipe and exit code
    fs,         \* resolved path of each regular file -> mtime
    clock,      \* the time of the last modification of a file
    dl_resp,    \* the last response of POST /download
    query,      \* per status request: position, argument and the values read
    fetch,      \* per fetch request: position, filename and response
    deleter,    \* per fetch request: its delayed_delete thread
    hist        \* per job id: every value its record has had (history variable)

vars == <<web_jobs, worker, proc, fs, clock, dl_resp, query, fetch, deleter, hist>>

InitialJob ==
    [status   |-> [pct |-> 0, speed |-> S_Dashes, eta |-> S_Dashes, text |-> S_Starting],
     filename |-> None,
     done     |-> FALSE,
     error    |-> None]

\* no POST /download has been answered yet; url is the form field of the
\* request the response answers
NoResponse == [url |-> None, code |-> 0, ok |-> FALSE, job_id |-> None, error |-> None]
\* a response that carries no status
NoStatus   == [pct |-> 0, speed |-> None, eta |-> None, text |-> None]
\* args: what build_web_cmd was called with for the job; cmd: what it returned
IdleWorker == [pc |-> "idle", line |-> <<>>, names |-> <<>>, kept |-> <<>>, keys |-> <<>>,
               args |-> [url |-> None, quality |-> None, fmt |-> None, cookies |-> None,
                         speed |-> None, cookie_file |-> FALSE],
               cmd |-> <<>>]
\* out: all the lines printed so far; pipe: those of them not yet read
NoProc     == [state |-> "none", pipe |-> <<>>, out |-> <<>>, emitted |-> 0, ret |-> 0,
               dest |-> None]
IdleQuery  == [pc |-> "idle", job |-> None, code |-> 0, ok |-> FALSE, status |-> NoStatus,
               done |-> FALSE, filename |-> None, error |-> None,
               returned |-> FALSE]   \* history: had /download returned this id?
IdleFetch  == [pc |-> "idle", name |-> <<>>, resp |-> "none"]
NoDeleter  == [state |-> "none", path |-> <<>>, left |-> 0]

Init ==
    /\ web_jobs = [j \in {} |-> InitialJob]
    /\ worker   = [j \in JobIds |-> IdleWorker]
    /\ proc     = [j \in JobIds |-> NoProc]
    /\ fs       = [p \in {OutsideFile} |-> 0]
    /\ clock    = 0
    /\ dl_resp  = NoResponse
    /\ query    = [q \in QueryIds |-> IdleQuery]
    /\ fetch    = [r \in FetchIds |-> IdleFetch]
    /\ deleter  = [r \in FetchIds |-> NoDeleter]
    /\ hist     = [j \in JobIds |-> {}]

\* the directory already exists (exist_ok=True) and holds the file a
InitFiles ==
    /\ web_jobs = [j \in {} |-> InitialJob]
    /\ worker   = [j \in JobIds |-> IdleWorker]
    /\ proc     = [j \in JobIds |-> NoProc]
    /\ fs       = (OutsideFile :> 0) @@ (Append(ManagedDir, <<"a">>) :> 1)
    /\ clock    = 1
    /\ dl_resp  = NoResponse
    /\ query    = [q \in QueryIds |-> IdleQuery]
    /\ fetch    = [r \in FetchIds |-> IdleFetch]
    /\ deleter  = [r \in FetchIds |-> NoDeleter]
    /\ hist     = [j \in JobIds |-> {}]

\* the working directory may hold the file cookies.txt
InitCmd ==
    /\ web_jobs = [j \in {} |-> InitialJob]
    /\ worker   = [j \in JobIds |-> IdleWorker]
    /\ proc     = [j \in JobIds |-> NoProc]
    /\ fs       \in {[p \in {OutsideFile} |-> 0], [p \in {OutsideFile, <<S_CookiesTxt>>} |-> 0]}
    /\ clock    = 0
    /\ dl_resp  = NoResponse
    /\ query    = [q \in QueryIds |-> IdleQuery]
    /\ fetch    = [r \in FetchIds |-> IdleFetch]
    /\ deleter  = [r \in FetchIds |-> NoDeleter]
    /\ hist     = [j \in JobIds |-> {}]

\* the directory holds any of the files a and b, written at time 1 or 2
InitScan ==
    /\ web_jobs = [j \in {} |-> InitialJob]
    /\ worker   = [j \in JobIds |-> IdleWorker]
    /\ proc     = [j \in JobIds |-> NoProc]
    /\ fs       \in {(OutsideFile :> 0) @@ files : files \in
                       UNION {[S -> 1..2] : S \in SUBSET {Append(ManagedDir, n) : n \in FileNames}}}
    /\ clock    = 2
    /\ dl_resp  = NoResponse
    /\ query    = [q \in QueryIds |-> IdleQuery]
    /\ fetch    = [r \in FetchIds |-> IdleFetch]
    /\ deleter  = [r \in FetchIds |-> NoDeleter]
    /\ hist     = [j \in JobIds |-> {}]

\* web_jobs[j] = rec, or an update of one field of it
Store(j, rec) ==
    /\ web_jobs' = (j :> rec) @@ web_jobs
    /\ hist'     = [hist EXCEPT ![j] = @ \cup {rec}]

(***************************************************************************)
(* POST /download                                                          *)
(***************************************************************************)
S_MissingURL == <<"M", "i", "s", "s", "i", "n", "g", " ", "U", "R", "L">>
SomeUrl      == <<"u">>
Urls         == {None, <<>>, SomeUrl}

\* the ids a submission has returned: their worker thread has been started
Returned == {j \in JobIds : worker[j].pc # "idle"}

\* a variant that tests `url is None` only: an empty url starts a job
web_download_empty(url, form, j) ==
    /\ IF url = None
       THEN /\ dl_resp' = [url |-> url, code |-> 400, ok |-> FALSE, job_id |-> None,
                           error |-> S_MissingURL]
            /\ UNCHANGED worker
       ELSE /\ j \notin Returned
            /\ worker'  = [worker EXCEPT
                             ![j].pc   = "init",
                             ![j].args = [url |-> url, quality |-> form.quality,
                                          fmt |-> form.fmt, cookies |-> form.cookies,
                                          speed |-> form.speed,
                                          cookie_file |-> CookieFileExists(fs)],
                             ![j].cmd  = build_web_cmd(url, form.quality, form.fmt,
                                                       form.cookies, form.speed, fs)]
            /\ dl_resp' = [url |-> url, code |-> 200, ok |-> TRUE, job_id |-> j,
                           error |-> None]
    /\ UNCHANGED <<web_jobs, proc, fs, clock, query, fetch, deleter, hist>>

\* web_download: url is the form field, j the value uuid.uuid4().hex[:12] takes
\* and form the other form fields
web_download(url, form, j) ==
    /\ IF url = None \/ url = <<>>
       THEN /\ dl_resp' = [url |-> url, code |-> 400, ok |-> FALSE, job_id |-> None,
                           error |-> S_MissingURL]
            /\ UNCHANGED worker
       ELSE /\ j \notin Returned
            /\ worker'  = [worker EXCEPT
                             ![j].pc   = "init",
                             ![j].args = [url |-> url, quality |-> form.quality,
                                          fmt |-> form.fmt, cookies |-> form.cookies,
                                          speed |-> form.speed,
                                          cookie_file |-> CookieFileExists(fs)],
                             ![j].cmd  = build_web_cmd(url, form.quality, form.fmt,
                                                       form.cookies, form.speed, fs)]
            /\ dl_resp' = [url |-> url, code |-> 200, ok |-> TRUE, job_id |-> j,
                           error |-> None]
    /\ UNCHANGED <<web_jobs, proc, fs, clock, query, fetch, deleter, hist>>

(***************************************************************************)
(* The external process: prints lines, then exits.  The file a destination *)
(* line announces is the file the process writes (-o out_tmpl).            *)
(***************************************************************************)
\* lines 101-103: the path a line announces, or None
Announced(line) ==
    IF Contains(S_Destination, line) THEN DestinationGroup(line) ELSE None

\* What the worker computes from a line depends on the line alone; it is
\* tabulated once for the lines the processes print.
Lines       == {Strip(raw) : raw \in RawLines \cup ParseLines}
StripOf     == [raw \in RawLines \cup ParseLines |-> Strip(raw)]
TextOf      == [line \in Lines |-> Prefix(line, TextLimit)]
ParsedOf    == [line \in Lines |-> parse_progress_line(line)]
AnnouncedOf == [line \in Lines |-> Announced(line)]
FilenameOf  == [line \in Lines |->
                  IF Announced(line) = None THEN None ELSE Basename(Announced(line))]
WrittenOf   == [line \in Lines |->
                  IF Announced(line) = None THEN NoEntry ELSE Resolve(Announced(line))]

\* the number of lines printed so far
RECURSIVE SumEmitted(_)
SumEmitted(S) == IF S = {} THEN 0
                 ELSE LET j == CHOOSE x \in S : TRUE
                      IN  proc[j].emitted + SumEmitted(S \ {j})
Emitted == SumEmitted(JobIds)

ProcEmit(j, raw) ==
    /\ proc[j].state = "running"
    /\ Emitted < MaxLines
    /\ proc' = [proc EXCEPT ![j].pipe    = Append(@, raw),
                            ![j].out     = Append(@, raw),
                            ![j].emitted = @ + 1,
                            ![j].dest    = IF AnnouncedOf[StripOf[raw]] # None
                                           THEN AnnouncedOf[StripOf[raw]] ELSE @]
    /\ IF AnnouncedOf[StripOf[raw]] # None
       THEN /\ clock' = clock + 1
            /\ fs'    = Written(fs, WrittenOf[StripOf[raw]], clock + 1)
       ELSE UNCHANGED <<fs, clock>>
    /\ UNCHANGED <<web_jobs, worker, dl_resp, query, fetch, deleter, hist>>

ProcExit(j, code) ==
    /\ proc[j].state = "running"
    /\ proc' = [proc EXCEPT ![j].state = "exited", ![j].ret = code]
    /\ UNCHANGED <<web_jobs, worker, fs, clock, dl_resp, query, fetch, deleter, hist>>

(***************************************************************************)
(* web_download_worker, one action per access to shared state.             *)
(***************************************************************************)
\* str(e) of the FileNotFoundError for path p
ErrNoEntry(p) == S_ENOENT \o p \o <<"'">>

\* the position after the line's text has been stored
AfterText(line) ==
    IF ParsedOf[line] # None THEN "update"
    ELSE IF AnnouncedOf[line] # None THEN "dest"
    ELSE "read"

\* a variant that rebinds the registry to a dict holding this job alone
WorkerInitRebinds(j) ==
    /\ worker[j].pc = "init"
    /\ web_jobs' = (j :> InitialJob)
    /\ hist'     = [hist EXCEPT ![j] = @ \cup {InitialJob}]
    /\ worker' = [worker EXCEPT ![j].pc = "popen"]
    /\ UNCHANGED <<proc, fs, clock, dl_resp, query, fetch, deleter>>

\* lines 83-88
WorkerInit(j) ==
    /\ worker[j].pc = "init"
    /\ Store(j, InitialJob)
    /\ worker' = [worker EXCEPT ![j].pc = "popen"]
    /\ UNCHANGED <<proc, fs, clock, dl_resp, query, fetch, deleter>>

\* line 90: the process starts ...
WorkerPopen(j) ==
    /\ worker[j].pc = "popen"
    /\ proc'   = [proc EXCEPT ![j].state = "running"]
    /\ worker' = [worker EXCEPT ![j].pc = "read"]
    /\ UNCHANGED <<web_jobs, fs, clock, dl_resp, query, fetch, deleter, hist>>

\* ... or Popen raises, which lines 120-121 record
WorkerPopenFails(j) ==
    /\ worker[j].pc = "popen"
    /\ Store(j, [web_jobs[j] EXCEPT !.error = ErrNoEntry(S_ytdlp)])
    /\ worker' = [worker EXCEPT ![j].pc = "end"]
    /\ UNCHANGED <<proc, fs, clock, dl_resp, query, fetch, deleter>>

\* a variant that stores the whole line as the text
WorkerReadWhole(j) ==
    /\ worker[j].pc = "read"
    /\ proc[j].pipe # <<>>
    /\ proc'   = [proc EXCEPT ![j].pipe = Tail(@)]
    /\ Store(j, [web_jobs[j] EXCEPT !.status.text = StripOf[Head(proc[j].pipe)]])
    /\ worker' = [worker EXCEPT ![j].line = StripOf[Head(proc[j].pipe)],
                                ![j].pc   = AfterText(StripOf[Head(proc[j].pipe)])]
    /\ UNCHANGED <<fs, clock, dl_resp, query, fetch, deleter>>

\* lines 91-94: the next line of the pipe
WorkerRead(j) ==
    /\ worker[j].pc = "read"
    /\ proc[j].pipe # <<>>
    /\ proc'   = [proc EXCEPT ![j].pipe = Tail(@)]
    /\ Store(j, [web_jobs[j] EXCEPT !.status.text = TextOf[StripOf[Head(proc[j].pipe)]]])
    /\ worker' = [worker EXCEPT ![j].line = StripOf[Head(proc[j].pipe)],
                                ![j].pc   = AfterText(StripOf[Head(proc[j].pipe)])]
    /\ UNCHANGED <<fs, clock, dl_resp, query, fetch, deleter>>

\* a variant in which the streams are read by one loop: none ends while a
\* process is still running
WorkerEndOfStreamJoint(j) ==
    /\ worker[j].pc = "read"
    /\ proc[j].pipe = <<>>
    /\ proc[j].state = "exited"
    /\ \A k \in JobIds : proc[k].state # "running"
    /\ worker' = [worker EXCEPT ![j].pc = "wait"]
    /\ UNCHANGED <<web_jobs, proc, fs, clock, dl_resp, query, fetch, deleter, hist>>

\* line 91: the stream ends once the process has exited and the pipe is empty
WorkerEndOfStream(j) ==
    /\ worker[j].pc = "read"
    /\ proc[j].pipe = <<>>
    /\ proc[j].state = "exited"
    /\ worker' = [worker EXCEPT ![j].pc = "wait"]
    /\ UNCHANGED <<web_jobs, proc, fs, clock, dl_resp, query, fetch, deleter, hist>>

\* a variant that keeps the eta it has when the line carries none
WorkerUpdateKeepsEta(j) ==
    /\ worker[j].pc = "update"
    /\ LET parsed == ParsedOf[worker[j].line]
       IN  Store(j, [web_jobs[j] EXCEPT
                       !.status.pct   = parsed[1],
                       !.status.speed = parsed[2],
                       !.status.eta   = IF parsed[3] = None \/ parsed[3] = <<>>
                                        THEN @ ELSE parsed[3]])
    /\ worker' = [worker EXCEPT ![j].pc = IF AnnouncedOf[worker[j].line] # None
                                          THEN "dest" ELSE "read"]
    /\ UNCHANGED <<proc, fs, clock, dl_resp, query, fetch, deleter>>

\* lines 96-99
WorkerUpdate(j) ==
    /\ worker[j].pc = "update"
    /\ LET parsed == ParsedOf[worker[j].line]
       IN  Store(j, [web_jobs[j] EXCEPT
                       !.status.pct   = parsed[1],
                       !.status.speed = parsed[2],
                       !.status.eta   = IF parsed[3] = None \/ parsed[3] = <<>>
                                        THEN S_Dashes ELSE parsed[3]])
    /\ worker' = [worker EXCEPT ![j].pc = IF AnnouncedOf[worker[j].line] # None
                                          THEN "dest" ELSE "read"]
    /\ UNCHANGED <<proc, fs, clock, dl_resp, query, fetch, deleter>>

\* lines 101-104
\* a variant in which an announced file name is kept once set
WorkerDestFirst(j) ==
    /\ worker[j].pc = "dest"
    /\ Store(j, [web_jobs[j] EXCEPT !.filename =
                   IF @ = None THEN FilenameOf[worker[j].line] ELSE @])
    /\ worker' = [worker EXCEPT ![j].pc = "read"]
    /\ UNCHANGED <<proc, fs, clock, dl_resp, query, fetch, deleter>>

WorkerDest(j) ==
    /\ worker[j].pc = "dest"
    /\ Store(j, [web_jobs[j] EXCEPT !.filename = FilenameOf[worker[j].line]])
    /\ worker' = [worker EXCEPT ![j].pc = "read"]
    /\ UNCHANGED <<proc, fs, clock, dl_resp, query, fetch, deleter>>

\* a variant whose error message leaves the exit code out
WorkerWaitNoCode(j) ==
    /\ worker[j].pc = "wait"
    /\ proc[j].state = "exited"
    /\ IF proc[j].ret = 0
       THEN /\ Store(j, [web_jobs[j] EXCEPT !.done = TRUE])
            /\ worker' = [worker EXCEPT ![j].pc =
                            IF web_jobs[j].filename = None \/ web_jobs[j].filename = <<>>
                            THEN "listdir" ELSE "end"]
       ELSE /\ Store(j, [web_jobs[j] EXCEPT !.error = S_Exited])
            /\ worker' = [worker EXCEPT ![j].pc = "end"]
    /\ UNCHANGED <<proc, fs, clock, dl_resp, query, fetch, deleter>>

\* lines 106-110 and 118-119
WorkerWait(j) ==
    /\ worker[j].pc = "wait"
    /\ proc[j].state = "exited"
    /\ IF proc[j].ret = 0
       THEN /\ Store(j, [web_jobs[j] EXCEPT !.done = TRUE])
            /\ worker' = [worker EXCEPT ![j].pc =
                            IF web_jobs[j].filename = None \/ web_jobs[j].filename = <<>>
                            THEN "listdir" ELSE "end"]
       ELSE /\ Store(j, [web_jobs[j] EXCEPT !.error = S_Exited \o Dec(proc[j].ret)])
            /\ worker' = [worker EXCEPT ![j].pc = "end"]
    /\ UNCHANGED <<proc, fs, clock, dl_resp, query, fetch, deleter>>

(***************************************************************************)
(* The fallback of lines 110-117: listdir, isfile per name, getmtime per   *)
(* kept name (the sort key), then the newest name.                         *)
(***************************************************************************)
\* the names of the regular files of the managed directory
Listing(files) ==
    {p[Len(p)] : p \in {x \in Files(files) : Inside(x) /\ Len(x) = Len(ManagedDir) + 1}}

\* os.listdir returns the names in an order the file system chooses
Orders(S) == {s \in [1..Cardinality(S) -> S] : \A n \in S : \E i \in DOMAIN s : s[i] = n}

\* a variant that sorts without reverse=True
Oldest(names, keys) ==
    names[Min({i \in DOMAIN names : \A k \in DOMAIN names : keys[i] <= keys[k]})]

\* sorted(names, key, reverse=True)[0]: the first name with the largest key
Newest(names, keys) ==
    names[Min({i \in DOMAIN names : \A k \in DOMAIN names : keys[k] <= keys[i]})]

\* lines 111-112: os.listdir
WorkerListdir(j) ==
    /\ worker[j].pc = "listdir"
    /\ \E names \in Orders(Listing(fs)) :
          worker' = [worker EXCEPT ![j].names = names, ![j].kept = <<>>, ![j].keys = <<>>,
                                   ![j].pc = IF names = <<>> THEN "end" ELSE "isfile"]
    /\ UNCHANGED <<web_jobs, proc, fs, clock, dl_resp, query, fetch, deleter, hist>>

\* os.path.isfile of the next listed name
WorkerIsfile(j) ==
    /\ worker[j].pc = "isfile"
    /\ LET f    == Head(worker[j].names)
           kept == IF IsFile(fs, Join(WEB_DOWNLOADER_DIR, f))
                   THEN Append(worker[j].kept, f) ELSE worker[j].kept
           rest == Tail(worker[j].names)
       IN  worker' = [worker EXCEPT ![j].names = rest, ![j].kept = kept,
                                    ![j].pc = IF rest # <<>> THEN "isfile"
                                              ELSE IF kept = <<>> THEN "end"
                                              ELSE "getmtime"]
    /\ UNCHANGED <<web_jobs, proc, fs, clock, dl_resp, query, fetch, deleter, hist>>

\* os.path.getmtime of the next kept name; it raises when the file is gone,
\* which lines 120-121 record
WorkerGetmtime(j) ==
    /\ worker[j].pc = "getmtime"
    /\ LET f == worker[j].kept[Len(worker[j].keys) + 1]
           p == Join(WEB_DOWNLOADER_DIR, f)
       IN  IF IsFile(fs, p)
           THEN /\ worker' = [worker EXCEPT
                                ![j].keys = Append(@, Mtime(fs, p)),
                                ![j].pc   = IF Len(worker[j].keys) + 1 = Len(worker[j].kept)
                                            THEN "pick" ELSE "getmtime"]
                /\ UNCHANGED <<web_jobs, hist>>
           ELSE /\ Store(j, [web_jobs[j] EXCEPT !.error = ErrNoEntry(p)])
                /\ worker' = [worker EXCEPT ![j].pc = "end"]
    /\ UNCHANGED <<proc, fs, clock, dl_resp, query, fetch, deleter>>

\* lines 116-117
WorkerPick(j) ==
    /\ worker[j].pc = "pick"
    /\ Store(j, [web_jobs[j] EXCEPT !.filename = Newest(worker[j].kept, worker[j].keys)])
    /\ worker' = [worker EXCEPT ![j].pc = "end"]
    /\ UNCHANGED <<proc, fs, clock, dl_resp, query, fetch, deleter>>

(***************************************************************************)
(* GET /status: the check of lines 269-272, then one read per field of the *)
(* response (lines 275-278); jsonify reads the status dictionary last.     *)
(***************************************************************************)
\* not job_id or job_id not in web_jobs
InvalidJob(id) == id = None \/ id = <<>> \/ id \notin DOMAIN web_jobs

\* a variant that reads the registry with setdefault: an unknown id gets a
\* fresh record and is answered as a known job
web_status_setdefault(q, id) ==
    /\ query[q].pc = "idle"
    /\ query' = [query EXCEPT ![q] =
                   IF id = None \/ id = <<>>
                   THEN [IdleQuery EXCEPT !.pc = "sent", !.job = id, !.code = 400,
                                          !.ok = FALSE, !.error = S_InvalidJob,
                                          !.returned = id \in Returned]
                   ELSE [IdleQuery EXCEPT !.pc = "done", !.job = id, !.code = 200,
                                          !.ok = TRUE, !.returned = id \in Returned]]
    /\ IF id \in JobIds /\ id \notin DOMAIN web_jobs
       THEN Store(id, InitialJob)
       ELSE UNCHANGED <<web_jobs, hist>>
    /\ UNCHANGED <<worker, proc, fs, clock, dl_resp, fetch, deleter>>

web_status(q, id) ==
    /\ query[q].pc = "idle"
    /\ query' = [query EXCEPT ![q] =
                   IF InvalidJob(id)
                   THEN [IdleQuery EXCEPT !.pc = "sent", !.job = id, !.code = 400,
                                          !.ok = FALSE, !.error = S_InvalidJob,
                                          !.returned = id \in Returned]
                   ELSE [IdleQuery EXCEPT !.pc = "done", !.job = id, !.code = 200,
                                          !.ok = TRUE, !.returned = id \in Returned]]
    /\ UNCHANGED <<web_jobs, worker, proc, fs, clock, dl_resp, fetch, deleter, hist>>

StatusReadDone(q) ==
    /\ query[q].pc = "done"
    /\ query' = [query EXCEPT ![q].done = web_jobs[query[q].job].done,
                              ![q].pc = "filename"]
    /\ UNCHANGED <<web_jobs, worker, proc, fs, clock, dl_resp, fetch, deleter, hist>>

StatusReadFilename(q) ==
    /\ query[q].pc = "filename"
    /\ query' = [query EXCEPT ![q].filename = web_jobs[query[q].job].filename,
                              ![q].pc = "error"]
    /\ UNCHANGED <<web_jobs, worker, proc, fs, clock, dl_resp, fetch, deleter, hist>>

StatusReadError(q) ==
    /\ query[q].pc = "error"
    /\ query' = [query EXCEPT ![q].error = web_jobs[query[q].job].error,
                              ![q].pc = "jsonify"]
    /\ UNCHANGED <<web_jobs, worker, proc, fs, clock, dl_resp, fetch, deleter, hist>>

StatusJsonify(q) ==
    /\ query[q].pc = "jsonify"
    /\ query' = [query EXCEPT ![q].status = web_jobs[query[q].job].status,
                              ![q].pc = "sent"]
    /\ UNCHANGED <<web_jobs, worker, proc, fs, clock, dl_resp, fetch, deleter, hist>>

(***************************************************************************)
(* GET /fetch/<filename> and its delayed_delete thread.                    *)
(***************************************************************************)
\* a variant that starts the delayed_delete thread before the existence check
web_fetch_eager(r, name) ==
    /\ fetch[r].pc = "idle"
    /\ LET full_path == Join(WEB_DOWNLOADER_DIR, name)
       IN  /\ fetch' = [fetch EXCEPT ![r] =
                          IF ~Exists(fs, full_path)
                          THEN [pc |-> "sent", name |-> name, resp |-> "404"]
                          ELSE [pc |-> "send", name |-> name, resp |-> "none"]]
           /\ deleter' = [deleter EXCEPT ![r] = [state |-> "sleep",
                                                 path  |-> full_path,
                                                 left  |-> GraceDelay]]
    /\ UNCHANGED <<web_jobs, worker, proc, fs, clock, dl_resp, query, hist>>

\* lines 283-285 and 295: the existence check, then the thread is started
web_fetch(r, name) ==
    /\ fetch[r].pc = "idle"
    /\ LET full_path == Join(WEB_DOWNLOADER_DIR, name)
       IN  IF ~Exists(fs, full_path)
           THEN /\ fetch' = [fetch EXCEPT ![r] = [pc |-> "sent", name |-> name,
                                                  resp |-> "404"]]
                /\ UNCHANGED deleter
           ELSE /\ fetch'   = [fetch EXCEPT ![r] = [pc |-> "send", name |-> name,
                                                    resp |-> "none"]]
                /\ deleter' = [deleter EXCEPT ![r] = [state |-> "sleep",
                                                      path  |-> full_path,
                                                      left  |-> GraceDelay]]
    /\ UNCHANGED <<web_jobs, worker, proc, fs, clock, dl_resp, query, hist>>

\* line 296: send_from_directory serves a regular file inside the directory
FetchSend(r) ==
    /\ fetch[r].pc = "send"
    /\ fetch' = [fetch EXCEPT ![r].pc = "sent",
                              ![r].resp = IF /\ safe_join(fetch[r].name) # NoEntry
                                             /\ safe_join(fetch[r].name) \in Files(fs)
                                          THEN "file" ELSE "404"]
    /\ UNCHANGED <<web_jobs, worker, proc, fs, clock, dl_resp, query, deleter, hist>>

\* one unit of time passes for every sleeping thread
Tick ==
    /\ \E r \in FetchIds : deleter[r].state = "sleep" /\ deleter[r].left > 0
    /\ deleter' = [r \in FetchIds |->
                     IF deleter[r].state = "sleep" /\ deleter[r].left > 0
                     THEN [deleter[r] EXCEPT !.left = @ - 1] ELSE deleter[r]]
    /\ UNCHANGED <<web_jobs, worker, proc, fs, clock, dl_resp, query, fetch, hist>>

\* a variant whose thread ends without removing the file
DelayedDeleteKeeps(r) ==
    /\ deleter[r].state = "sleep"
    /\ deleter[r].left = 0
    /\ deleter' = [deleter EXCEPT ![r].state = "end"]
    /\ UNCHANGED <<web_jobs, worker, proc, fs, clock, dl_resp, query, fetch, hist>>

\* lines 290-293, once the sleep is over: os.remove, its failure swallowed
DelayedDelete(r) ==
    /\ deleter[r].state = "sleep"
    /\ deleter[r].left = 0
    /\ deleter' = [deleter EXCEPT ![r].state = "end"]
    /\ fs' = Without(fs, ResolveOf[deleter[r].path])
    /\ UNCHANGED <<web_jobs, worker, proc, clock, dl_resp, query, fetch, hist>>

(***************************************************************************)
(* The program: request handlers, worker threads, external processes and   *)
(* delayed_delete threads interleave freely.  Each specification below     *)
(* takes the part of the program its properties are about, with the number *)
(* of jobs and requests it admits.                                         *)
(***************************************************************************)
\* POST /download with a url of `urls`, with at most n jobs started
SubmitForm(n, urls, forms) ==
    \E url \in urls, form \in forms, j \in JobIds :
        /\ (url # None /\ url # <<>>) => Cardinality(Returned) < n
        /\ web_download(url, form, j)

\* POST /download with the url alone
Submit(n, urls) == SubmitForm(n, urls, {DefaultForm})

\* the external processes, printing lines of `lines` and exiting with a code of `codes`
Process(lines, codes) ==
    \/ \E j \in JobIds, raw \in lines : ProcEmit(j, raw)
    \/ \E j \in JobIds, code \in codes : ProcExit(j, code)

Worker(j) ==
    \/ WorkerInit(j)
    \/ WorkerPopen(j)
    \/ WorkerPopenFails(j)
    \/ WorkerRead(j)
    \/ WorkerEndOfStream(j)
    \/ WorkerUpdate(j)
    \/ WorkerDest(j)
    \/ WorkerWait(j)
    \/ WorkerListdir(j)
    \/ WorkerIsfile(j)
    \/ WorkerGetmtime(j)
    \/ WorkerPick(j)

\* GET /status, with at most n requests; they are numbered as they arrive
Status(n) ==
    \/ \E q \in 1..n, id \in QueryArgs :
          (IF q = 1 THEN TRUE ELSE query[q - 1].pc # "idle") /\ web_status(q, id)
    \/ \E q \in 1..n : StatusReadDone(q)
    \/ \E q \in 1..n : StatusReadFilename(q)
    \/ \E q \in 1..n : StatusReadError(q)
    \/ \E q \in 1..n : StatusJsonify(q)

\* GET /fetch and the threads it starts, with at most n requests; they are
\* numbered as they arrive
Fetch(n) ==
    \/ \E r \in 1..n, name \in FetchNames :
          (IF r = 1 THEN TRUE ELSE fetch[r - 1].pc # "idle") /\ web_fetch(r, name)
    \/ \E r \in 1..n : FetchSend(r)
    \/ \E r \in 1..n : DelayedDelete(r)
    \/ Tick

\* jobs and status requests
Next ==
    \/ Submit(MaxJobs, Urls)
    \/ Process(StatusLines, StatusCodes)
    \/ \E j \in JobIds : Worker(j)
    \/ Status(MaxQueries)

Spec == Init /\ [][Next]_vars

\* jobs alone, with every kind of output line and exit code
NextJobs ==
    \/ Submit(MaxJobs, Urls)
    \/ Process(RawLines, ExitCodes)
    \/ \E j \in JobIds : Worker(j)

SpecJobs == Init /\ [][NextJobs]_vars

\* a directory that holds files of an earlier run, and fetches
NextFetch == Fetch(MaxFetches)

SpecFetch == InitFiles /\ [][NextFetch]_vars

\* a directory that holds files of an earlier run, fetches, and jobs
NextFiles ==
    \/ Submit(FileJobs, {SomeUrl})
    \/ Process(FileLines, FileCodes)
    \/ \E j \in JobIds : Worker(j)
    \/ Fetch(MaxFetches)

SpecFiles == InitFiles /\ [][NextFiles]_vars

(***************************************************************************)
(* Fairness: the operating system schedules every started thread, and time *)
(* passes.  An external process owes nothing: it may print no more and     *)
(* never exit.                                                             *)
(***************************************************************************)
LiveJobs == SpecJobs /\ \A j \in JobIds : WF_vars(Worker(j))

\* one job and every kind of output line, in a directory that holds a file
NextLines ==
    \/ Submit(FileJobs, {SomeUrl})
    \/ Process(ParseLines, {0})
    \/ \E j \in JobIds : Worker(j)

SpecLines == InitFiles /\ [][NextLines]_vars

\* one job that exits with 0 and one fetch, in a directory that holds any files
NextScan ==
    \/ Submit(FileJobs, {SomeUrl})
    \/ Process(FileLines, {0})
    \/ \E j \in JobIds : Worker(j)
    \/ Fetch(1)

SpecScan == InitScan /\ [][NextScan]_vars

\* the form fields of the submissions: labels of the maps and labels of neither
S_BadLabel  == <<"b", "e", "s", "t">>
Forms ==
    [quality : {S_480p, <<"7", "2", "0", "p">>, S_BadLabel},
     fmt     : {S_MP4Video, <<"M", "P", "3", " ", "-", " ", "A", "u", "d", "i", "o">>},
     cookies : {S_none, S_CookiesTxt},
     speed   : {S_Turbo, <<"S", "l", "o", "w">>, S_BadLabel}]

\* submissions with every form, with or without the cookie file
NextCmd == SubmitForm(MaxJobs, {SomeUrl, <<" ", "u", "\n">>}, Forms)

SpecCmd == InitCmd /\ [][NextCmd]_vars

\* the steps of a status request after its check
StatusReads(q) ==
    StatusReadDone(q) \/ StatusReadFilename(q) \/ StatusReadError(q) \/ StatusJsonify(q)

\* jobs that are accepted, whose processes exit with code 0 if they exit, and
\* status requests
NextIso ==
    \/ Submit(MaxJobs, {SomeUrl})
    \/ Process(StatusLines, {0})
    \/ \E j \in JobIds : Worker(j)
    \/ Status(MaxQueries)

SpecIso == Init /\ [][NextIso]_vars

\* every thread that can take a step eventually does; the external processes
\* are under no such obligation
LiveIso ==
    /\ SpecIso
    /\ \A j \in JobIds : WF_vars(Worker(j))
    /\ \A q \in QueryIds : WF_vars(StatusReads(q))

LiveFetch ==
    /\ SpecFetch
    /\ WF_vars(Tick)
    /\ \A r \in FetchIds : WF_vars(DelayedDelete(r)) /\ WF_vars(FetchSend(r))

(***************************************************************************)
(* Properties.                                                             *)
(***************************************************************************)
Registered(j) == j \in DOMAIN web_jobs

\* C1: once POST /download has returned a job id, the registry holds that
\* job's record, and a status request for the id made after that is never
\* answered "Invalid job".
C1_RegisteredWhenReturned ==
    /\ \A j \in Returned : Registered(j)
    /\ \A q \in QueryIds : (query[q].pc # "idle" /\ query[q].returned) => query[q].ok

\* the process of job j has announced a destination and exited with code 0
SucceededWithDestination(j) ==
    proc[j].state = "exited" /\ proc[j].ret = 0 /\ proc[j].dest # None

\* job j is completed, without error, with the file announced last
CompletedWithAnnounced(j) ==
    /\ Registered(j)
    /\ web_jobs[j].done
    /\ web_jobs[j].error = None
    /\ web_jobs[j].filename = Basename(proc[j].dest)

\* C2: a job whose process announces at least one destination and then exits
\* with code 0 eventually reaches, and stays in, a state with done true, error
\* null and filename the base name of the path announced last.
C2_SuccessIsReached ==
    \A j \in JobIds : SucceededWithDestination(j) ~> []CompletedWithAnnounced(j)

\* a job is completed with the second of two different announced files
C2_Witness ==
    \E j \in JobIds :
        /\ SucceededWithDestination(j)
        /\ CompletedWithAnnounced(j)
        /\ worker[j].pc = "end"
        /\ \E h \in hist[j] : h.filename # None /\ h.filename # web_jobs[j].filename

\* the process of job j has exited with a code other than 0
Failed(j) == proc[j].state = "exited" /\ proc[j].ret # 0

\* job j carries an error that names its exit code, and is not done
FailedWithCode(j) ==
    /\ Registered(j)
    /\ web_jobs[j].error # None
    /\ Contains(Dec(proc[j].ret), web_jobs[j].error)
    /\ ~web_jobs[j].done

\* C3: a job whose process exits with a non-zero code eventually has an error
\* that names the code, and done is false then and ever after.
C3_FailureIsReached ==
    \A j \in JobIds : Failed(j) ~> []FailedWithCode(j)

\* a job has failed with the exit code of a signal, after its output was read
C3_Witness ==
    \E j \in JobIds :
        /\ Failed(j)
        /\ proc[j].ret < 0
        /\ FailedWithCode(j)
        /\ proc[j].emitted > 0
        /\ worker[j].pc = "end"

\* C4: no job is both completed and failed: done implies error null.
C4_DoneWithoutError ==
    \A j \in JobIds : (Registered(j) /\ web_jobs[j].done) => web_jobs[j].error = None

\* C5: once done is true or error is set, the job's record never changes again.
C5_FrozenOnceSet ==
    [][\A j \in JobIds :
         (Registered(j) /\ (web_jobs[j].done \/ web_jobs[j].error # None))
             => web_jobs'[j] = web_jobs[j]]_vars

\* C6: a status request without a job id, or with an id the registry does not
\* hold, is answered not found (ok false, status 400, no job snapshot), and the
\* registry is as it was.
C6_UnknownJobNotFound ==
    [][\A q \in QueryIds :
         (/\ query[q].pc = "idle"
          /\ query'[q].pc # "idle"
          /\ \/ query'[q].job = None
             \/ query'[q].job = <<>>
             \/ query'[q].job \notin DOMAIN web_jobs)
         => /\ query'[q].pc = "sent"
            /\ query'[q].ok = FALSE
            /\ query'[q].code = 400
            /\ query'[q].status = NoStatus
            /\ web_jobs' = web_jobs]_vars

\* a request for an identifier that is not registered, while another job is,
\* has been answered not found
C6_Witness ==
    \E q \in QueryIds :
        /\ query[q].pc = "sent"
        /\ query[q].job \in JobIds
        /\ ~query[q].ok
        /\ web_jobs # <<>>

\* the path fetch request r joins, resolved
Joined(r) == ResolveOf[Join(WEB_DOWNLOADER_DIR, fetch[r].name)]

\* C7: a fetch whose joined path lies outside the managed directory serves
\* nothing and starts no deletion thread, and no file outside is removed.
C7_NothingOutside ==
    /\ \A r \in FetchIds :
         (fetch[r].pc # "idle" /\ ~Inside(Joined(r)))
             => fetch[r].resp # "file" /\ deleter[r].state = "none"
    /\ OutsideFile \in Files(fs)

\* the file deletion thread r is to remove, resolved
Target(r) ==
    IF deleter[r].path \in Paths THEN ResolveOf[deleter[r].path] ELSE NoEntry

C9_MissingNotFound ==
    [][\A r \in FetchIds :
         (/\ fetch[r].pc = "idle"
          /\ fetch'[r].pc # "idle"
          /\ ResolveOf[Join(WEB_DOWNLOADER_DIR, fetch'[r].name)] \notin (Dirs \cup Files(fs)))
         => /\ fetch'[r].pc = "sent"
            /\ fetch'[r].resp = "404"
            /\ deleter' = deleter
            /\ fs' = fs]_vars

\* a fetch of a missing name was answered while another deletion thread sleeps
C9_Witness ==
    \E r, r2 \in FetchIds :
        /\ fetch[r].pc = "sent"
        /\ fetch[r].resp = "404"
        /\ deleter[r].state = "none"
        /\ deleter[r2].state = "sleep"
        /\ deleter[r2].left < GraceDelay

\* C10: the response to a status request for a known job is a value the job's
\* record had at one instant.
C10_AtomicRead ==
    \A q \in QueryIds :
        (query[q].pc = "sent" /\ query[q].ok)
            => [status   |-> query[q].status,
                filename |-> query[q].filename,
                done     |-> query[q].done,
                error    |-> query[q].error] \in hist[query[q].job]


\* the step is a POST /download that was answered
Answered == dl_resp' # dl_resp
\* the worker threads the step starts
Started == {j \in JobIds : worker[j].pc = "idle" /\ worker'[j].pc # "idle"}

\* C11: a submission without a url, or with an empty one, is answered ok false
\* with status 400 and an error, registers no job and starts no worker thread;
\* a submission with a url is answered ok true with a job id, and the worker
\* thread of that id is started.
C11_SubmissionAnswered ==
    [][/\ (Answered /\ (dl_resp'.url = None \/ dl_resp'.url = <<>>))
            => /\ ~dl_resp'.ok
               /\ dl_resp'.code = 400
               /\ dl_resp'.job_id = None
               /\ dl_resp'.error # None
               /\ web_jobs' = web_jobs
               /\ worker' = worker
       /\ (Answered /\ dl_resp'.url # None /\ dl_resp'.url # <<>>)
            => /\ dl_resp'.ok
               /\ dl_resp'.code = 200
               /\ dl_resp'.job_id \in JobIds
               /\ Started = {dl_resp'.job_id}
               /\ worker'[dl_resp'.job_id].pc = "init"]_vars

\* a submission with an empty url was refused after another had started a job
C11_Witness ==
    /\ dl_resp.url = <<>>
    /\ dl_resp.code = 400
    /\ \E j \in JobIds : worker[j].pc # "idle"
    /\ \E j \in JobIds : worker[j].pc = "idle"


\* the step writes the record of job j: it registers, changes or removes it
Writes(j) ==
    \/ j \in DOMAIN web_jobs' /\ j \notin DOMAIN web_jobs
    \/ j \in DOMAIN web_jobs /\ j \notin DOMAIN web_jobs'
    \/ j \in DOMAIN web_jobs /\ j \in DOMAIN web_jobs' /\ web_jobs'[j] # web_jobs[j]
\* the step is a step of the worker thread of job j, and of no other thread
WorkerStep(j) ==
    /\ worker[j].pc \notin {"idle", "end"}
    /\ worker'[j] # worker[j]
    /\ \A k \in JobIds \ {j} : worker'[k] = worker[k]
    /\ query' = query /\ fetch' = fetch /\ deleter' = deleter /\ dl_resp' = dl_resp

\* C12: a submission that succeeds starts one worker thread, that of the id it
\* returns and of no id it returned before; a step that writes the record of
\* a job is a step of the worker thread of that job and writes no other record.
C12_OneRunnerPerJob ==
    [][/\ (Answered /\ dl_resp'.ok)
            => Started = {dl_resp'.job_id} /\ dl_resp'.job_id \notin Returned
       /\ Started # {} => Answered /\ dl_resp'.ok
       /\ \A j \in JobIds :
             Writes(j) => WorkerStep(j) /\ \A k \in JobIds \ {j} : ~Writes(k)]_vars

\* two jobs have run to their ends while a status request was being answered,
\* and their records differ
C12_Witness ==
    \E j, k \in JobIds :
        /\ j # k
        /\ worker[j].pc = "end" /\ worker[k].pc = "end"
        /\ Registered(j) /\ Registered(k)
        /\ web_jobs[j] # web_jobs[k]
        /\ web_jobs[j].done /\ web_jobs[k].error # None
        /\ \E q \in QueryIds : query[q].pc = "sent" /\ query[q].ok


\* the error of job j is the str(e) of an exception that lines 120-121 caught
\* (the error of line 119 begins with "yt-dlp exited")
CaughtException(j) ==
    /\ Registered(j)
    /\ web_jobs[j].error # None
    /\ ~MatchAt(S_Exited, web_jobs[j].error, 1)

\* C13: a job whose error records an exception caught in the worker thread
\* has done false.
C13_ExceptionLeavesNotDone ==
    \A j \in JobIds : CaughtException(j) => ~web_jobs[j].done


\* C14: a file stays in the managed directory for the whole grace delay after
\* every fetch that served it.  The delayed_delete thread of a fetch starts
\* before the fetch serves the file, so at the step that removes the file the
\* thread of every fetch that served it must have slept its whole delay.
C14_GraceAfterEveryFetch ==
    [][\A r \in FetchIds :
         (/\ fetch[r].resp = "file"
          /\ Joined(r) \in Files(fs)
          /\ Joined(r) \notin Files(fs'))
         => deleter[r].left = 0]_vars


\* job j has reached a terminal state
Terminal(j) ==
    /\ worker[j].pc = "end"
    /\ Registered(j)
    /\ web_jobs[j].done \/ web_jobs[j].error # None

\* the process of job j runs and prints nothing: its worker thread is blocked
\* in the read of line 91
Stuck(j) ==
    /\ proc[j].state = "running"
    /\ proc[j].pipe = <<>>
    /\ worker[j].pc = "read"

\* C15: whatever the other processes do, and be it nothing for ever, a job
\* whose process has exited reaches a terminal state, a status request that
\* has arrived is answered, and a submission can be answered.
C15_JobsAreIsolated ==
    /\ \A j \in JobIds : (proc[j].state = "exited") ~> Terminal(j)
    /\ \A q \in QueryIds : (query[q].pc # "idle") ~> (query[q].pc = "sent")
    /\ [](\A j \in JobIds \ Returned : ENABLED web_download(SomeUrl, DefaultForm, j))

\* one job is stuck while the other has reached its terminal state and a
\* status request for it has been answered
C15_Witness ==
    \E j, k \in JobIds :
        /\ Stuck(j)
        /\ proc[j].emitted = 0
        /\ Terminal(k)
        /\ proc[k].state = "exited"
        /\ \E q \in QueryIds : query[q].pc = "sent" /\ query[q].ok /\ query[q].job = k


\* the step is the read of a line by the worker thread of job j
ReadsLine(j) ==
    /\ worker[j].pc = "read"
    /\ proc[j].pipe # <<>>
    /\ proc'[j].pipe = Tail(proc[j].pipe)

\* C16: when the worker reads a line that matches neither progress pattern,
\* the text of the status becomes the line cut to 160 characters, pct, speed
\* and eta stay as they are, and no update of them follows for that line.
C16_UnparsedLineSetsText ==
    [][\A j \in JobIds :
         (ReadsLine(j) /\ parse_progress_line(Strip(Head(proc[j].pipe))) = None)
         => /\ web_jobs'[j].status.text = Prefix(Strip(Head(proc[j].pipe)), TextLimit)
            /\ Len(web_jobs'[j].status.text) <= TextLimit
            /\ web_jobs'[j].status.pct   = web_jobs[j].status.pct
            /\ web_jobs'[j].status.speed = web_jobs[j].status.speed
            /\ web_jobs'[j].status.eta   = web_jobs[j].status.eta
            /\ worker'[j].pc # "update"]_vars

\* a line longer than 160 characters was read after a progress line: the text
\* is a proper prefix of the line and the progress values are not the initial
C16_Witness ==
    \E j \in JobIds :
        /\ Registered(j)
        /\ worker[j].pc = "read"
        /\ Len(worker[j].line) > TextLimit
        /\ Len(web_jobs[j].status.text) = TextLimit
        /\ web_jobs[j].status.pct # 0

\* the lines the worker thread of job j has processed
Processed(j) == SubSeq(proc[j].out, 1, Len(proc[j].out) - Len(proc[j].pipe))
\* what parse_progress_line returns for the last of the lines of seq that
\* parses as progress; the initial values when none does
Progress(seq) ==
    {i \in DOMAIN seq : parse_progress_line(Strip(seq[i])) # None}
LastProgress(seq) ==
    IF Progress(seq) = {} THEN <<0, S_Dashes, None>>
    ELSE parse_progress_line(Strip(seq[Max(Progress(seq))]))
\* the base name the last destination line of seq announces; None without one
Destinations(seq) ==
    {i \in DOMAIN seq : Announced(Strip(seq[i])) # None}
LastDestination(seq) ==
    IF Destinations(seq) = {} THEN None
    ELSE Basename(Announced(Strip(seq[Max(Destinations(seq))])))

\* C17: between two lines, and when the stream has ended, pct and speed are
\* those of the last line that parsed as progress (0 and "--" without one),
\* eta is that line's ETA, or "--" when the line has none, and filename is
\* the base name of the last destination line (null without one).
C17_LastLineWins ==
    \A j \in JobIds :
        (Registered(j) /\ worker[j].pc \in {"read", "wait"})
        => /\ web_jobs[j].status.pct   = LastProgress(Processed(j))[1]
           /\ web_jobs[j].status.speed = LastProgress(Processed(j))[2]
           /\ web_jobs[j].status.eta   = IF LastProgress(Processed(j))[3] = None
                                         THEN S_Dashes ELSE LastProgress(Processed(j))[3]
           /\ web_jobs[j].filename     = LastDestination(Processed(j))

\* a line with ETA, then a line without, have been processed
C17_Witness ==
    \E j \in JobIds :
        /\ Registered(j)
        /\ worker[j].pc = "wait"
        /\ Processed(j) = <<RawProgress, RawReduced>>
        /\ web_jobs[j].status.eta = S_Dashes
        /\ web_jobs[j].status.pct = 750


\* the worker thread of job j has ended after exit code 0 of a process that
\* printed no destination line, no other job was started, and no
\* delayed_delete thread has removed a file
ScannedAlone(j) ==
    /\ Registered(j)
    /\ worker[j].pc = "end"
    /\ proc[j].state = "exited" /\ proc[j].ret = 0
    /\ proc[j].dest = None
    /\ \A k \in JobIds \ {j} : worker[k].pc = "idle"
    /\ \A r \in FetchIds : deleter[r].state # "end"
\* the regular files of the managed directory no other is newer than
NewestFiles(files) ==
    {f \in Listing(files) : \A g \in Listing(files) :
        Mtime(files, Join(WEB_DOWNLOADER_DIR, g)) <= Mtime(files, Join(WEB_DOWNLOADER_DIR, f))}

\* C18: a single job whose process exits 0 without a destination line, with
\* no file removed meanwhile, ends with done = true and with the most recently
\* modified regular file of the managed directory as its filename; filename
\* stays null when the directory holds no regular file.
C18_FallbackPicksNewest ==
    \A j \in JobIds :
        ScannedAlone(j)
        => /\ web_jobs[j].done
           /\ Listing(fs) = {} => web_jobs[j].filename = None
           /\ Listing(fs) # {} => web_jobs[j].filename \in NewestFiles(fs)

\* the directory holds a and the newer b, and the job ended with b
C18_Witness ==
    \E j \in JobIds :
        /\ ScannedAlone(j)
        /\ Listing(fs) = {<<"a">>, <<"b">>}
        /\ NewestFiles(fs) = {<<"b">>}
        /\ web_jobs[j].filename = <<"b">>


\* the argument list c holds the option opt followed by the value val
HasOption(c, opt, val) == \E i \in 1..(Len(c) - 1) : c[i] = opt /\ c[i + 1] = val
\* the format selector of the argument list c (the value of -f)
Selector(c) == c[3]
S_Ceiling480 == <<"h", "e", "i", "g", "h", "t", "<", "=", "4", "8", "0", "]">>

\* two calls with the same arguments and cookie file presence returned the same
Deterministic ==
    \A j, k \in Returned : worker[j].args = worker[k].args => worker[j].cmd = worker[k].cmd
\* every call returned an argument list that starts the program with a selector
Total ==
    \A j \in Returned :
        Len(worker[j].cmd) >= 3 /\ worker[j].cmd[1] = S_ytdlp /\ worker[j].cmd[2] = <<"-", "f">>
\* an unknown speed label gives the options of the Turbo profile
DefaultSpeed ==
    \A j \in Returned :
        worker[j].args.speed \notin DOMAIN SPEED_MAP
        => /\ HasOption(worker[j].cmd, S_ConcurrentFragments, SPEED_MAP[S_Turbo].concurrent)
           /\ HasOption(worker[j].cmd, S_HttpChunkSize, SPEED_MAP[S_Turbo].chunk)
\* the options every argument list holds
FixedOptions ==
    \A j \in Returned :
        /\ \E i \in DOMAIN worker[j].cmd : worker[j].cmd[i] = S_NoPlaylist
        /\ HasOption(worker[j].cmd, S_Retries, S_3)
        /\ HasOption(worker[j].cmd, S_FragmentRetries, S_3)
\* the cookie option is passed only for the selector cookies.txt and a file there
CookieOnlyWhenPresent ==
    \A j \in Returned :
        HasOption(worker[j].cmd, S_Cookies, S_CookiesTxt)
        => worker[j].args.cookies = S_CookiesTxt /\ worker[j].args.cookie_file

\* C19 as stated: the builder is deterministic and total, an unknown quality
\* label gives the height ceiling 480 and an unknown speed label the Turbo
\* profile, --no-playlist, --retries 3 and --fragment-retries 3 are always
\* there, and the cookie option only for the selector and an existing file.
C19_DefaultsForUnknownLabels ==
    /\ Deterministic /\ Total /\ DefaultSpeed /\ FixedOptions /\ CookieOnlyWhenPresent
    /\ \A j \in Returned :
          worker[j].args.quality \notin DOMAIN QUALITY_MAP
          => Contains(S_Ceiling480, Selector(worker[j].cmd))

\* C19, amended: as above, with the height ceiling 480 of an unknown quality
\* label in the video format only; the audio selector has no height ceiling,
\* and is the same for every quality label.
C19_CeilingInVideoFormat ==
    /\ Deterministic /\ Total /\ DefaultSpeed /\ FixedOptions /\ CookieOnlyWhenPresent
    /\ \A j \in Returned :
          worker[j].args.quality \notin DOMAIN QUALITY_MAP
          => IF worker[j].args.fmt = S_MP4Video
             THEN Selector(worker[j].cmd) = S_BestUpTo \o S_480 \o S_ExtMp4
             ELSE Selector(worker[j].cmd) = S_BestAudio

\* two calls with unknown labels, the cookie selector and the cookie file
\* returned the same list, which holds the cookie option; a third kind of
\* call would not: the selector without the file
C19_Witness ==
    /\ CookieFileExists(fs)
    /\ \E j, k \in Returned :
          /\ j # k
          /\ worker[j].args = worker[k].args
          /\ worker[j].args.quality = S_BadLabel
          /\ worker[j].args.speed = S_BadLabel
          /\ worker[j].args.fmt = S_MP4Video
          /\ worker[j].args.cookies = S_CookiesTxt
          /\ HasOption(worker[j].cmd, S_Cookies, S_CookiesTxt)
          /\ Len(worker[j].cmd) = 18


\* C20: a status response that reports done = true with a null filename is
\* about a job whose filename stays null: the filename of a job seen done
\* already has its final value.
C20_FilenameFinalWhenDone ==
    \A q \in QueryIds :
        (query[q].pc = "sent" /\ query[q].ok /\ query[q].done
            /\ query[q].filename = None /\ query[q].job \in DOMAIN web_jobs)
        => web_jobs[query[q].job].filename = None

=============================================================================
